---- MODULE Spec2Model ----
(***************************************************************************)
(* tootfyre: one invocation of Cmd.Run (src/main.go).  The run loads the   *)
(* config file, registers an application when the client credentials are   *)
(* incomplete, looks up the account, walks the account's statuses page by  *)
(* page collecting candidates in toDelete, and then walks toDelete         *)
(* backwards deleting (or, in a dry run, logging) each candidate.          *)
(*                                                                         *)
(* Every call that leaves the process (the config file, RegisterApp,       *)
(* GetAccountCurrentUser, GetAccountStatuses, DeleteStatus) is one step of *)
(* the model; the outcome of the call is chosen by the environment.        *)
(***************************************************************************)
EXTENDS Integers, Sequences, FiniteSets, TLC

VARIABLES
    cmd,        \* the parsed flags (Cmd), fixed for the run
    file,       \* the config file on disk
    now,        \* time.Now() at the start of Run
    config,     \* Run's local Config
    c,          \* the mastodon client built from config
    pg,         \* mastodon.Pagination, shared with the client library
    toDelete,   \* the candidate list
    idx,        \* index of the deletion loop (Go, 0-based)
    pc,         \* position of Run
    err,        \* what Run returned ("running" until it returns)
    account,    \* server: the shapes the statuses of the account have
    remaining,  \* server: statuses of the account not yet served
    served,     \* server: statuses served so far (the next ID is served + 1)
    calls,      \* number of calls issued, per remote operation and file write
    examined,   \* number of statuses the body of the range loop has run for
    skips,      \* the "skipping ..." messages the range loop has logged
    faults,     \* the operations that have answered with an error
    log,        \* one entry per pass of the deletion loop, in order
    slept,      \* seconds spent in time.Sleep
    paged,      \* pg as the client library left it at the return of the latest fetch
    owed,       \* number of statuses examined that the filter has no ground to skip
    twin        \* LOOP of a second run on the same answers, DryRun being the other way

vars == << cmd, file, now, config, c, pg, toDelete, idx, pc, err,
           account, remaining, served, calls, examined, skips, faults, log, slept,
           paged, owed, twin >>

(***************************************************************************)
(* Bounds                                                                  *)
(***************************************************************************)
MaxPosts == 2       \* statuses in the account
MaxCount == 2       \* largest --count tried

\* GetAccountStatuses calls are counted up to this number (the counter saturates)
MaxFetch == MaxPosts + 2

(***************************************************************************)
(* Constants of the program                                                *)
(***************************************************************************)
timeMax == -(30 * (24 * (60 * 60)))     \* seconds
paginationLimit == 200

Nil == "nil"

VisibilityPublic == "public"
VisibilityDirectMessage == "direct"

(***************************************************************************)
(* Inputs                                                                  *)
(***************************************************************************)
\* --count is an int; zero is accepted (and so are negative numbers, which Run
\* treats as it treats zero)
CountValues == 0..MaxCount

Cmd == [ Slow : BOOLEAN, ExcludeReplies : BOOLEAN, ExcludePinned : BOOLEAN,
         ExcludeBookmarked : BOOLEAN, ExcludePublic : BOOLEAN,
         ExcludeBoosts : BOOLEAN, ExcludeDirect : BOOLEAN,
         Count : CountValues, DryRun : BOOLEAN, BurnItAll : BOOLEAN ]

\* the exclusion flags that are on by default
DefaultExcludes(f) ==
    /\ f.ExcludeReplies /\ f.ExcludePinned /\ f.ExcludeBookmarked /\ f.ExcludeDirect
    /\ ~f.ExcludePublic /\ ~f.ExcludeBoosts

\* number of exclusion flags that are on
Excludes(f) ==
    (IF f.ExcludeReplies THEN 1 ELSE 0) + (IF f.ExcludePinned THEN 1 ELSE 0)
    + (IF f.ExcludeBookmarked THEN 1 ELSE 0) + (IF f.ExcludePublic THEN 1 ELSE 0)
    + (IF f.ExcludeBoosts THEN 1 ELSE 0) + (IF f.ExcludeDirect THEN 1 ELSE 0)

Config == [ Server : {"", "https://example.social"},
            ClientID : {"", "file-id"},
            ClientSecret : {"", "file-secret"},
            AccessToken : {"", "token"} ]

EmptyConfig == [ Server |-> "", ClientID |-> "", ClientSecret |-> "", AccessToken |-> "" ]

\* the file is missing, cannot be opened, is not TOML, or decodes to content
FileStates == [ state : {"missing", "unreadable", "garbled"}, content : {EmptyConfig} ]
                  \cup [ state : {"ok"}, content : Config ]

CompleteFile == [ state |-> "ok",
                  content |-> [ Server |-> "https://example.social", ClientID |-> "file-id",
                                ClientSecret |-> "file-secret", AccessToken |-> "token" ] ]

\* The runs explored.  With complete credentials in the file and the exclusion
\* flags at their defaults: every combination of BurnItAll, DryRun and Count in
\* slow mode, and of DryRun and Count without it; in slow mode and without
\* BurnItAll, every combination of DryRun and Count with the exclusion flags
\* all off or all on, and every Count with a single one on and DryRun off.
\* With every other state of the file: the default flags in slow mode, dry or not.
Inputs ==
    { in \in [ cmd : Cmd, file : {CompleteFile} ] :
        \/ DefaultExcludes(in.cmd) /\ (in.cmd.Slow \/ ~in.cmd.BurnItAll)
        \/ Excludes(in.cmd) \in {0, 6} /\ in.cmd.Slow /\ ~in.cmd.BurnItAll
        \/ Excludes(in.cmd) = 1 /\ in.cmd.Slow /\ ~in.cmd.BurnItAll /\ ~in.cmd.DryRun }
    \cup
    { in \in [ cmd : Cmd, file : FileStates ] :
        /\ DefaultExcludes(in.cmd) /\ ~in.cmd.BurnItAll /\ in.cmd.Count = MaxCount
        /\ in.cmd.Slow }

\* The runs explored for progress: the default exclusions in slow mode, with
\* and without BurnItAll and DryRun, every Count, and a file whose credentials
\* are complete or lack the client ID.
LiveInputs ==
    { in \in Inputs :
        /\ DefaultExcludes(in.cmd) /\ in.cmd.Slow
        /\ in.file.state = "ok" /\ in.file.content.Server # ""
        /\ in.file.content.AccessToken # "" /\ in.file.content.ClientSecret # "" }

StartTimes == {3000000}

\* creation times of the statuses, relative to the cutoff
CreatedOffsets == {-2, -1, 0}

NoClient == [ Server |-> Nil, ClientID |-> Nil, ClientSecret |-> Nil,
              AccessToken |-> Nil, UserAgent |-> Nil ]

NoPagination == [ MaxID |-> "", SinceID |-> "", MinID |-> "", Limit |-> 0 ]

NoCalls == [ LoadConfig |-> 0, RegisterApp |-> 0, WriteConfig |-> 0,
             GetAccountCurrentUser |-> 0, GetAccountStatuses |-> 0,
             DeleteStatus |-> 0 ]

(***************************************************************************)
(* Statuses.  A status carries the fields Run reads: Reblog and            *)
(* InReplyToID are Nil or point at another status.                         *)
(***************************************************************************)
Shapes == [ Pinned : BOOLEAN, Visibility : {VisibilityPublic, "unlisted", VisibilityDirectMessage},
            Bookmarked : BOOLEAN, Reblog : {Nil, "boosted"}, InReplyToID : {Nil, "parent"},
            Offset : CreatedOffsets ]

\* number of attributes of a status that some exclusion flag looks at
Marks(s) == (IF s.Pinned THEN 1 ELSE 0) + (IF s.Visibility # "unlisted" THEN 1 ELSE 0)
            + (IF s.Bookmarked THEN 1 ELSE 0) + (IF s.Reblog # Nil THEN 1 ELSE 0)
            + (IF s.InReplyToID # Nil THEN 1 ELSE 0)

\* the statuses an account is made of: plain ones of every age, and old ones
\* with one such attribute
Catalogue == { s \in Shapes : Marks(s) = 0 \/ (Marks(s) = 1 /\ s.Offset = -1) }

\* a smaller account: plain statuses just older than the cutoff and just not,
\* and pinned ones
LiveCatalogue ==
    { s \in Catalogue : /\ s.Offset \in {-1, 0} /\ s.Visibility = "unlisted" /\ ~s.Bookmarked
                        /\ s.Reblog = Nil /\ s.InReplyToID = Nil }

SeqsUpTo(S, n) == UNION { [1..k -> S] : k \in 0..n }

\* the page the server answers with: the next Len(shapes) statuses of the account
Statuses(shapes, first, cutoff) ==
    [ i \in 1..Len(shapes) |->
        [ ID |-> first + i, CreatedAt |-> cutoff + shapes[i].Offset,
          Pinned |-> shapes[i].Pinned, Visibility |-> shapes[i].Visibility,
          Bookmarked |-> shapes[i].Bookmarked, Reblog |-> shapes[i].Reblog,
          InReplyToID |-> shapes[i].InReplyToID ] ]

(***************************************************************************)
(* Pure parts of Run                                                       *)
(***************************************************************************)
Min(a, b) == IF a < b THEN a ELSE b

\* variant: a status created exactly at the cutoff counts as old
Before_OrEqual(t, u) == t <= u

\* time.Time.Before
Before(t, u) == t < u

\* endTime = time.Now().Add(timeMax)
EndTime(t) == t + timeMax

\* Cmd.Rest: the seconds slept
Rest(flags, secs) == IF flags.Slow THEN secs ELSE 0

\* variant: the case of the direct messages does not look at ExcludeDirect
Skip_DirectAlways(flags, status, endTime) ==
    IF ~flags.BurnItAll
    THEN IF ~(status.CreatedAt < endTime)
              THEN "skipping for being too young"
         ELSE IF flags.ExcludePinned /\ status.Pinned = TRUE
              THEN "skipping due to pinned"
         ELSE IF flags.ExcludePublic /\ status.Visibility = VisibilityPublic
              THEN "skipping due to being public"
         ELSE IF flags.ExcludeBookmarked /\ status.Bookmarked = TRUE
              THEN "skipping due to being bookmarked"
         ELSE IF flags.ExcludeBoosts /\ status.Reblog # Nil
              THEN "skipping due to being a boost"
         ELSE IF flags.ExcludeReplies /\ status.InReplyToID # Nil
              THEN "skipping due to being a reply"
         ELSE IF status.Visibility = VisibilityDirectMessage
              THEN "skipping due to being a DM"
         ELSE ""
    ELSE ""

\* variant: the pinned test is missing from the switch
Skip_PinnedNotTested(flags, status, endTime) ==
    IF ~flags.BurnItAll
    THEN IF ~(status.CreatedAt < endTime)
              THEN "skipping for being too young"
         ELSE IF flags.ExcludePublic /\ status.Visibility = VisibilityPublic
              THEN "skipping due to being public"
         ELSE IF flags.ExcludeBookmarked /\ status.Bookmarked = TRUE
              THEN "skipping due to being bookmarked"
         ELSE IF flags.ExcludeBoosts /\ status.Reblog # Nil
              THEN "skipping due to being a boost"
         ELSE IF flags.ExcludeReplies /\ status.InReplyToID # Nil
              THEN "skipping due to being a reply"
         ELSE IF flags.ExcludeDirect /\ status.Visibility = VisibilityDirectMessage
              THEN "skipping due to being a DM"
         ELSE ""
    ELSE ""

\* variant: the age test stands outside the test of BurnItAll
Skip_AgeAlways(flags, status, endTime) ==
    IF ~(status.CreatedAt < endTime)
         THEN "skipping for being too young"
    ELSE IF ~flags.BurnItAll
    THEN IF flags.ExcludePinned /\ status.Pinned = TRUE
              THEN "skipping due to pinned"
         ELSE IF flags.ExcludePublic /\ status.Visibility = VisibilityPublic
              THEN "skipping due to being public"
         ELSE IF flags.ExcludeBookmarked /\ status.Bookmarked = TRUE
              THEN "skipping due to being bookmarked"
         ELSE IF flags.ExcludeBoosts /\ status.Reblog # Nil
              THEN "skipping due to being a boost"
         ELSE IF flags.ExcludeReplies /\ status.InReplyToID # Nil
              THEN "skipping due to being a reply"
         ELSE IF flags.ExcludeDirect /\ status.Visibility = VisibilityDirectMessage
              THEN "skipping due to being a DM"
         ELSE ""
    ELSE ""

\* the filter of the range loop: the message logged when the status is skipped,
\* "" when it is not
Skip(flags, status, endTime) ==
    IF ~flags.BurnItAll
    THEN IF ~Before(status.CreatedAt, endTime)
              THEN "skipping for being too young"
         ELSE IF flags.ExcludePinned /\ status.Pinned = TRUE
              THEN "skipping due to pinned"
         ELSE IF flags.ExcludePublic /\ status.Visibility = VisibilityPublic
              THEN "skipping due to being public"
         ELSE IF flags.ExcludeBookmarked /\ status.Bookmarked = TRUE
              THEN "skipping due to being bookmarked"
         ELSE IF flags.ExcludeBoosts /\ status.Reblog # Nil
              THEN "skipping due to being a boost"
         ELSE IF flags.ExcludeReplies /\ status.InReplyToID # Nil
              THEN "skipping due to being a reply"
         ELSE IF flags.ExcludeDirect /\ status.Visibility = VisibilityDirectMessage
              THEN "skipping due to being a DM"
         ELSE ""
    ELSE ""

\* variant: a dry run is content with one candidate
Full_DryRunStopsAtOne(flags, list) ==
    Len(list) >= (IF flags.DryRun THEN 1 ELSE flags.Count)

\* len(toDelete) >= cmd.Count
Full(flags, list) == Len(list) >= flags.Count

\* the range loop over one page, from position i on: the candidate list, the
\* number of statuses examined, the messages logged, and whether the loop left
\* through break LOOP
RECURSIVE RangeLoop(_, _, _, _, _)
RangeLoop(flags, endTime, statuses, i, acc) ==
    IF i > Len(statuses)
    THEN acc
    ELSE LET why == Skip(flags, statuses[i], endTime)
         IN  IF why # ""
             THEN RangeLoop(flags, endTime, statuses, i + 1,
                            [ acc EXCEPT !.examined = @ + 1, !.skips = @ \cup {why} ])
             ELSE LET appended == Append(acc.toDelete, statuses[i])
                      next == [ acc EXCEPT !.examined = @ + 1, !.toDelete = appended ]
                  IN  IF Full(flags, appended)
                      THEN [ next EXCEPT !.full = TRUE ]
                      ELSE RangeLoop(flags, endTime, statuses, i + 1, next)

\* variant: only the upper bound of the cursor is tested
Leave_MaxOnly(full, p) == full \/ p.MaxID = ""

\* variant: the cursor ends LOOP only when both of its bounds are empty
Leave_BothEmpty(full, p) == full \/ (p.MaxID = "" /\ p.MinID = "")

\* the tests that end LOOP: break LOOP in the range loop, then the two cursor tests
Leave(full, p) == full \/ p.MaxID = "" \/ p.MinID = ""

\* variant: every pass takes the entry the first pass takes
Candidate_Last(list, i) == list[Len(list)]

\* variant: the deletion loop runs through the list front to back
Candidate_Forward(list, i) == list[Len(list) - i]

\* the candidate the deletion loop handles at index i
Candidate(list, i) == list[i + 1]

\* variant: the rest stands behind the if/else, so a dry run rests as well
DeleteBody_RestsInDryRun(flags, status, outcome) ==
    IF flags.DryRun
    THEN [ entry |-> [ status |-> status, call |-> "dry run" ], deletes |-> 0,
           rest |-> IF flags.Slow THEN 15 ELSE 0 ]
    ELSE [ entry |-> [ status |-> status, call |-> outcome ], deletes |-> 1,
           rest |-> IF flags.Slow THEN 15 ELSE 0 ]

\* variant: DryRun is not looked at
DeleteBody_IgnoresDryRun(flags, status, outcome) ==
    [ entry |-> [ status |-> status, call |-> outcome ], deletes |-> 1,
      rest |-> IF flags.Slow THEN 15 ELSE 0 ]

\* the body of the deletion loop: the entry logged, the DeleteStatus calls
\* issued and the seconds rested
DeleteBody(flags, status, outcome) ==
    IF flags.DryRun
    THEN [ entry |-> [ status |-> status, call |-> "dry run" ], deletes |-> 0, rest |-> 0 ]
    ELSE [ entry |-> [ status |-> status, call |-> outcome ], deletes |-> 1,
           rest |-> Rest(flags, 15) ]

\* the client library's update of the caller's Pagination from the Link header:
\* without a header pg is left alone, with one it is overwritten as a whole
LinkHeaders == [ present : {FALSE}, MaxID : {""}, SinceID : {""}, MinID : {""} ]
                 \cup [ present : {TRUE}, MaxID : {"", "max"}, SinceID : {""}, MinID : {"", "min"} ]

Paginate(p, link) ==
    IF link.present
    THEN [ MaxID |-> link.MaxID, SinceID |-> link.SinceID, MinID |-> link.MinID, Limit |-> 0 ]
    ELSE p

\* one pass of LOOP after the fetch has answered: the range loop, the tests of
\* the cursor, the cursor for the next fetch and the seconds rested
LoopBody(flags, endTime, p, acc, statuses, link) ==
    LET answered == Paginate(p, link)
        loop     == RangeLoop(flags, endTime, statuses, 1, [ acc EXCEPT !.full = FALSE ])
        left     == Leave(loop.full, answered)
    IN  [ loop |-> loop, answered |-> answered, left |-> left,
          pg |-> IF left THEN answered
                 ELSE [ answered EXCEPT !.SinceID = "", !.MinID = "",
                                        !.Limit = paginationLimit ],
          rest |-> IF left THEN 0 ELSE Rest(flags, 5) ]

\* the statuses the range loop has no ground to skip: any status under
\* BurnItAll, otherwise the old ones that no enabled exclusion names
Eligible(flags, status, endTime) ==
    \/ flags.BurnItAll
    \/ /\ status.CreatedAt < endTime
       /\ ~(flags.ExcludePinned /\ status.Pinned)
       /\ ~(flags.ExcludePublic /\ status.Visibility = "public")
       /\ ~(flags.ExcludeBookmarked /\ status.Bookmarked)
       /\ ~(flags.ExcludeBoosts /\ status.Reblog # Nil)
       /\ ~(flags.ExcludeReplies /\ status.InReplyToID # Nil)
       /\ ~(flags.ExcludeDirect /\ status.Visibility = "direct")

\* variant: the case of the access token is missing from the switch
Validate_TokenNotTested(conf) ==
    IF conf.Server = "" THEN "'server' is required in config" ELSE ""

\* the switch at the end of LoadConfig: the error it returns, "" when it returns none
Validate(conf) ==
    IF conf.Server = "" THEN "'server' is required in config"
    ELSE IF conf.AccessToken = "" THEN "'accesstoken' is required in config"
    ELSE ""

\* variant: an app is registered on every run
NeedsApp_Always(conf) == TRUE

\* (config.ClientID == "") || (config.ClientSecret == "")
NeedsApp(conf) == (conf.ClientID = "") \/ (conf.ClientSecret = "")

(***************************************************************************)
(* The state at the entry of Run                                           *)
(***************************************************************************)
Start(inputs, shapes) ==
    /\ \E in \in inputs : cmd = in.cmd /\ file = in.file
    /\ account = shapes
    /\ now \in StartTimes
    /\ remaining \in 0..MaxPosts
    /\ config = EmptyConfig
    /\ c = NoClient
    /\ pg = NoPagination
    /\ toDelete = << >>
    /\ idx = 0
    /\ pc = "LoadConfig"
    /\ err = "running"
    /\ served = 0
    /\ calls = NoCalls
    /\ examined = 0
    /\ skips = {}
    /\ faults = {}
    /\ log = << >>
    /\ slept = 0
    /\ paged = NoPagination
    /\ owed = 0
    /\ twin = [ toDelete |-> << >>, pg |-> NoPagination, pc |-> "LoadConfig" ]

Init == Start(Inputs, Catalogue)

InitLive == Start(LiveInputs, LiveCatalogue)

\* one more call of op; the count of GetAccountStatuses stops at MaxFetch
Called(op) ==
    [ calls EXCEPT ![op] = IF op = "GetAccountStatuses" THEN Min(@ + 1, MaxFetch) ELSE @ + 1 ]

\* `return e` from Run
Return(e) == pc' = "Returned" /\ err' = e

(***************************************************************************)
(* config, err := cmd.LoadConfig(cmd.Config), and the test of the client   *)
(* credentials that follows it                                             *)
(***************************************************************************)
LoadConfig ==
    /\ pc = "LoadConfig"
    /\ calls' = Called("LoadConfig")
    /\ IF file.state = "missing" THEN
            Return("stat") /\ UNCHANGED config
       ELSE IF file.state = "unreadable" THEN
            Return("open") /\ UNCHANGED config
       ELSE IF file.state = "garbled" THEN
            Return("decode") /\ UNCHANGED config
       ELSE IF Validate(file.content) # "" THEN
            Return(Validate(file.content)) /\ UNCHANGED config
       ELSE /\ config' = file.content
            /\ pc' = IF NeedsApp(file.content) THEN "RegisterApp" ELSE "GetAccountCurrentUser"
            /\ UNCHANGED err
    /\ UNCHANGED << cmd, file, now, c, pg, toDelete, idx, account, remaining, served,
                    examined, skips, faults, log, slept, paged, owed, twin >>

(***************************************************************************)
(* mastodon.RegisterApp, and on success cmd.WriteConfig(config), whose     *)
(* error Run drops                                                         *)
(***************************************************************************)
\* the file after WriteConfig: os.Create fails and leaves it alone, or the
\* file is truncated and then the encoding fails or succeeds
WriteConfig(f, conf, outcome) ==
    CASE outcome = "create failed" -> f
      [] outcome = "encode failed" -> [ state |-> "ok", content |-> EmptyConfig ]
      [] outcome = "written" -> [ state |-> "ok", content |-> conf ]

RegisterAppFails ==
    /\ pc = "RegisterApp"
    /\ calls' = Called("RegisterApp")
    /\ faults' = faults \cup {"RegisterApp"}
    /\ Return("register")
    /\ UNCHANGED << cmd, file, now, config, c, pg, toDelete, idx, account, remaining, served,
                    examined, skips, log, slept, paged, owed, twin >>

\* variant: the error of WriteConfig is returned
RegisterApp_WriteErrorReturned ==
    /\ pc = "RegisterApp"
    /\ \E outcome \in {"create failed", "encode failed", "written"} :
          LET registered == [ config EXCEPT !.ClientID = "app-id",
                                            !.ClientSecret = "app-secret" ]
          IN  /\ config' = registered
              /\ file' = WriteConfig(file, registered, outcome)
              /\ faults' = IF outcome = "written" THEN faults
                                                  ELSE faults \cup {"WriteConfig"}
              /\ IF outcome = "written"
                 THEN pc' = "GetAccountCurrentUser" /\ UNCHANGED err
                 ELSE Return("write")
    /\ calls' = [ Called("RegisterApp") EXCEPT !.WriteConfig = @ + 1 ]
    /\ UNCHANGED << cmd, now, c, pg, toDelete, idx, account, remaining, served,
                    examined, skips, log, slept, paged, owed, twin >>

RegisterApp ==
    /\ pc = "RegisterApp"
    /\ \E outcome \in {"create failed", "encode failed", "written"} :
          LET registered == [ config EXCEPT !.ClientID = "app-id",
                                            !.ClientSecret = "app-secret" ]
          IN  /\ config' = registered
              /\ file' = WriteConfig(file, registered, outcome)
              /\ faults' = IF outcome = "written" THEN faults
                                                  ELSE faults \cup {"WriteConfig"}
    /\ calls' = [ Called("RegisterApp") EXCEPT !.WriteConfig = @ + 1 ]
    /\ pc' = "GetAccountCurrentUser"
    /\ UNCHANGED << cmd, now, c, pg, toDelete, idx, err, account, remaining, served,
                    examined, skips, log, slept, paged, owed, twin >>

(***************************************************************************)
(* mastodon.NewClient and c.GetAccountCurrentUser, then the declarations   *)
(* ahead of LOOP                                                           *)
(***************************************************************************)
NewClient(conf) ==
    [ Server |-> conf.Server, ClientID |-> conf.ClientID,
      ClientSecret |-> conf.ClientSecret, AccessToken |-> conf.AccessToken,
      UserAgent |-> "tootfyre/0.0.1" ]

\* variant: the error of GetAccountCurrentUser is logged and Run goes on
GetAccountCurrentUserFails_GoesOn ==
    /\ pc = "GetAccountCurrentUser"
    /\ c' = NewClient(config)
    /\ calls' = Called("GetAccountCurrentUser")
    /\ faults' = faults \cup {"GetAccountCurrentUser"}
    /\ pg' = [ NoPagination EXCEPT !.Limit = paginationLimit ]
    /\ toDelete' = << >>
    /\ pc' = "GetAccountStatuses"
    /\ twin' = [ toDelete |-> << >>, pg |-> [ NoPagination EXCEPT !.Limit = paginationLimit ],
                 pc |-> "GetAccountStatuses" ]
    /\ UNCHANGED << cmd, file, now, config, idx, err, account, remaining, served,
                    examined, skips, log, slept, paged, owed >>

GetAccountCurrentUserFails ==
    /\ pc = "GetAccountCurrentUser"
    /\ c' = NewClient(config)
    /\ calls' = Called("GetAccountCurrentUser")
    /\ faults' = faults \cup {"GetAccountCurrentUser"}
    /\ Return("account")
    /\ UNCHANGED << cmd, file, now, config, pg, toDelete, idx, account, remaining, served,
                    examined, skips, log, slept, paged, owed, twin >>

GetAccountCurrentUser ==
    /\ pc = "GetAccountCurrentUser"
    /\ c' = NewClient(config)
    /\ calls' = Called("GetAccountCurrentUser")
    /\ pg' = [ NoPagination EXCEPT !.Limit = paginationLimit ]
    /\ toDelete' = << >>
    /\ pc' = "GetAccountStatuses"
    /\ twin' = [ toDelete |-> << >>, pg |-> [ NoPagination EXCEPT !.Limit = paginationLimit ],
                 pc |-> "GetAccountStatuses" ]
    /\ UNCHANGED << cmd, file, now, config, idx, err, account, remaining, served,
                    examined, skips, faults, log, slept, paged, owed >>

(***************************************************************************)
(* One pass of LOOP: c.GetAccountStatuses, the range loop over the page,   *)
(* the two tests of the cursor, and the rest before the next page.  The    *)
(* server answers with the next statuses of the account, any number of     *)
(* them and of any shape; a page without statuses carries no Link header.  *)
(***************************************************************************)
\* variant: a failed fetch is logged and the run goes on to delete what it has
GetAccountStatusesFails_GoesOn ==
    /\ pc = "GetAccountStatuses"
    /\ calls' = Called("GetAccountStatuses")
    /\ faults' = faults \cup {"GetAccountStatuses"}
    /\ idx' = Len(toDelete) - 1
    /\ pc' = "DeleteStatus"
    /\ UNCHANGED << cmd, file, now, config, c, pg, toDelete, err, account, remaining, served,
                    examined, skips, log, slept, paged, owed, twin >>

GetAccountStatusesFails ==
    /\ pc = "GetAccountStatuses"
    /\ calls' = Called("GetAccountStatuses")
    /\ faults' = faults \cup {"GetAccountStatuses"}
    /\ Return("statuses")
    /\ twin' = [ twin EXCEPT !.pc = "Returned" ]
    /\ UNCHANGED << cmd, file, now, config, c, pg, toDelete, idx, account, remaining, served,
                    examined, skips, log, slept, paged, owed >>

GetAccountStatuses ==
    /\ pc = "GetAccountStatuses"
    /\ calls' = Called("GetAccountStatuses")
    /\ \E shapes \in SeqsUpTo(account, Min(remaining, pg.Limit)), link \in LinkHeaders :
          LET statuses == Statuses(shapes, served, EndTime(now))
              pass     == LoopBody(cmd, EndTime(now), pg,
                                   [ toDelete |-> toDelete, examined |-> examined,
                                     skips |-> skips, full |-> FALSE ],
                                   statuses, link)
              other    == LoopBody([ cmd EXCEPT !.DryRun = ~cmd.DryRun ], EndTime(now), twin.pg,
                                   [ toDelete |-> twin.toDelete, examined |-> 0,
                                     skips |-> {}, full |-> FALSE ],
                                   statuses, link)
              run      == pass.loop.examined - examined
          IN  /\ (shapes = << >>) => ~link.present
              /\ remaining' = remaining - Len(shapes)
              /\ served' = served + Len(shapes)
              /\ toDelete' = pass.loop.toDelete
              /\ examined' = pass.loop.examined
              /\ skips' = pass.loop.skips
              /\ paged' = pass.answered
              /\ owed' = owed + Cardinality({ i \in 1..run :
                                                Eligible(cmd, statuses[i], EndTime(now)) })
              /\ twin' = IF twin.pc = "GetAccountStatuses"
                         THEN [ toDelete |-> other.loop.toDelete, pg |-> other.pg,
                                pc |-> IF other.left THEN "DeleteStatus"
                                                     ELSE "GetAccountStatuses" ]
                         ELSE twin
              /\ pg' = pass.pg
              /\ slept' = slept + pass.rest
              /\ IF pass.left
                 THEN /\ idx' = Len(pass.loop.toDelete) - 1
                      /\ pc' = "DeleteStatus"
                 ELSE UNCHANGED << idx, pc >>
    /\ UNCHANGED << cmd, file, now, config, c, err, account, faults, log >>

(***************************************************************************)
(* One pass of the deletion loop, and the return that follows the loop     *)
(***************************************************************************)
\* variant: the error of DeleteStatus is returned
DeleteStatus_Aborts ==
    /\ pc = "DeleteStatus"
    /\ idx >= 0
    /\ \E outcome \in {"deleted", "error when deleting"} :
          LET body == DeleteBody(cmd, Candidate(toDelete, idx), outcome)
              failed == body.entry.call = "error when deleting"
          IN  /\ log' = Append(log, body.entry)
              /\ calls' = [ calls EXCEPT !.DeleteStatus = @ + body.deletes ]
              /\ faults' = IF failed THEN faults \cup {"DeleteStatus"} ELSE faults
              /\ slept' = slept + (IF failed THEN 0 ELSE body.rest)
              /\ IF failed THEN Return("delete") ELSE UNCHANGED << pc, err >>
    /\ idx' = idx - 1
    /\ UNCHANGED << cmd, file, now, config, c, pg, toDelete,
                    account, remaining, served, examined, skips, paged, owed, twin >>

DeleteStatus ==
    /\ pc = "DeleteStatus"
    /\ idx >= 0
    /\ \E outcome \in {"deleted", "error when deleting"} :
          LET body == DeleteBody(cmd, Candidate(toDelete, idx), outcome)
          IN  /\ log' = Append(log, body.entry)
              /\ calls' = [ calls EXCEPT !.DeleteStatus = @ + body.deletes ]
              /\ faults' = IF body.entry.call = "error when deleting"
                           THEN faults \cup {"DeleteStatus"} ELSE faults
              /\ slept' = slept + body.rest
    /\ idx' = idx - 1
    /\ UNCHANGED << cmd, file, now, config, c, pg, toDelete, pc, err,
                    account, remaining, served, examined, skips, paged, owed, twin >>

\* variant: after the deletions Run polls for the next page when there is one
ReturnNil_PollsAgain ==
    /\ pc = "DeleteStatus"
    /\ ~(idx >= 0)
    /\ IF pg.MaxID # "" /\ calls.GetAccountStatuses < MaxFetch
       THEN pc' = "GetAccountStatuses" /\ UNCHANGED err
       ELSE Return("nil")
    /\ UNCHANGED << cmd, file, now, config, c, pg, toDelete, idx,
                    account, remaining, served, calls, examined, skips, faults, log, slept, paged, owed, twin >>

ReturnNil ==
    /\ pc = "DeleteStatus"
    /\ ~(idx >= 0)
    /\ Return("nil")
    /\ UNCHANGED << cmd, file, now, config, c, pg, toDelete, idx,
                    account, remaining, served, calls, examined, skips, faults, log, slept, paged, owed, twin >>

Next ==
    \/ LoadConfig
    \/ RegisterAppFails
    \/ RegisterApp
    \/ GetAccountCurrentUserFails
    \/ GetAccountCurrentUser
    \/ GetAccountStatusesFails
    \/ GetAccountStatuses
    \/ DeleteStatus
    \/ ReturnNil

Spec == Init /\ [][Next]_vars

\* Run is one thread of control: each step it can take, it takes
LiveSpec == InitLive /\ [][Next]_vars /\ WF_vars(Next)

(***************************************************************************)
(* Properties                                                              *)
(***************************************************************************)
ThirtyDays == 30 * 24 * 60 * 60

\* the statuses handled by the deletion loop so far, in the order handled
Handled == [ i \in 1..Len(log) |-> log[i].status ]

\* every status of a sequence
Each(list, P(_)) == \A i \in 1..Len(list) : P(list[i])

IsPinned(s) == s.Pinned
IsYoung(s) == s.CreatedAt >= now - ThirtyDays

\* C1: at every point of Run the candidate list holds at most Count statuses,
\* for every Count the flag parser accepts.
C1_CandidatesAtMostCount == Len(toDelete) <= cmd.Count

\* C2: in a run with DryRun set no DeleteStatus call is ever issued, whatever
\* the account holds and whatever the other flags and Count are.
C2_DryRunNeverDeletes ==
    cmd.DryRun => /\ calls.DeleteStatus = 0
                  /\ \A i \in 1..Len(log) : log[i].call = "dry run"

C2_Witness ==
    /\ cmd.DryRun /\ cmd.BurnItAll /\ pc = "Returned" /\ err = "nil"
    /\ Len(log) >= 2

\* what C3 says of one status, in the claim's own terms
OldAndNotExcluded(s) ==
    /\ s.CreatedAt < now - ThirtyDays
    /\ ~(cmd.ExcludePinned /\ s.Pinned)
    /\ ~(cmd.ExcludePublic /\ s.Visibility = "public")
    /\ ~(cmd.ExcludeBookmarked /\ s.Bookmarked)
    /\ ~(cmd.ExcludeBoosts /\ s.Reblog # Nil)
    /\ ~(cmd.ExcludeReplies /\ s.InReplyToID # Nil)
    /\ ~(cmd.ExcludeDirect /\ s.Visibility = "direct")

\* C3: without BurnItAll, every status that is deleted (or logged by a dry run)
\* was created strictly before run start minus 30 days and matches none of
\* the exclusions that are switched on.
C3_DeletedAreOldAndNotExcluded ==
    ~cmd.BurnItAll => Each(Handled, OldAndNotExcluded) /\ Each(toDelete, OldAndNotExcluded)

C3_Witness ==
    /\ ~cmd.BurnItAll /\ cmd.ExcludePublic
    /\ "skipping due to being public" \in skips
    /\ Len(log) >= 1 /\ calls.DeleteStatus >= 1

\* C4 as stated: with ExcludePinned, a pinned status is never a candidate and
\* never deleted, whatever the other flags are.
C4_PinnedNeverCandidate ==
    cmd.ExcludePinned => ~(\E i \in 1..Len(toDelete) : IsPinned(toDelete[i]))
                         /\ ~(\E i \in 1..Len(log) : IsPinned(log[i].status))

\* C4 amended: with ExcludePinned and without BurnItAll, a pinned status is
\* never a candidate and never deleted, whatever the other flags are.
C4_PinnedNeverCandidateUnlessBurnItAll ==
    (cmd.ExcludePinned /\ ~cmd.BurnItAll) =>
        ~(\E i \in 1..Len(toDelete) : IsPinned(toDelete[i]))
        /\ ~(\E i \in 1..Len(log) : IsPinned(log[i].status))

C4_Witness ==
    /\ cmd.ExcludePinned /\ ~cmd.BurnItAll
    /\ "skipping due to pinned" \in skips
    /\ pc = "Returned" /\ Len(log) >= 1

\* C5: with BurnItAll, every status the scan examines is appended to the
\* candidate list (none is skipped), whatever its age and attributes and
\* whatever the exclusion flags are.
C5_BurnItAllTakesEveryStatus ==
    cmd.BurnItAll => examined = Len(toDelete) /\ skips = {}

C5_Witness ==
    /\ cmd.BurnItAll /\ cmd.ExcludePinned /\ examined >= 2
    /\ \E i \in 1..Len(toDelete) : IsPinned(toDelete[i])
    /\ \E i \in 1..Len(toDelete) : IsYoung(toDelete[i])

\* no status is handled after one that was created strictly later
OldestFirst(list) ==
    \A i \in 1..Len(list) : \A j \in 1..Len(list) :
        i < j => ~(list[j].CreatedAt < list[i].CreatedAt)

\* the server's order: no status comes after one that was created strictly earlier
NewestFirst(list) ==
    \A i \in 1..Len(list) : \A j \in 1..Len(list) :
        i < j => ~(list[i].CreatedAt < list[j].CreatedAt)

\* C6 as stated: of two candidates, the one created strictly earlier is deleted
\* (or logged) first, in whatever order the server returned them.
C6_DeletedOldestFirst == OldestFirst(Handled)

\* C6 amended: of two candidates, the one created strictly earlier is deleted
\* (or logged) first, provided the server returned the candidates newest first.
C6_DeletedOldestFirstWhenServedNewestFirst == NewestFirst(toDelete) => OldestFirst(Handled)

C6_Witness ==
    /\ NewestFirst(toDelete) /\ Len(log) >= 2
    /\ log[1].status.CreatedAt < log[2].status.CreatedAt

\* C7: every GetAccountStatuses call comes before the first DeleteStatus call:
\* a step that fetches a page is taken only while no delete has been issued,
\* and no delete is issued while Run is still in LOOP.
C7_NoFetchAfterDelete ==
    [][ /\ (calls'.GetAccountStatuses # calls.GetAccountStatuses => calls.DeleteStatus = 0)
        /\ (pc' = "GetAccountStatuses" => calls'.DeleteStatus = 0) ]_vars

C7_Witness == calls.GetAccountStatuses >= 2 /\ calls.DeleteStatus >= 2

\* C8: once a page fetch has failed, Run has returned that error, no delete
\* call has been or will be issued, and nothing more happens (no retry).
C8_FetchErrorEndsRun ==
    /\ []( "GetAccountStatuses" \in faults =>
              /\ pc = "Returned" /\ err = "statuses"
              /\ calls.DeleteStatus = 0 /\ log = << >> )
    /\ [][ "GetAccountStatuses" \notin faults ]_vars

C8_Witness ==
    /\ "GetAccountStatuses" \in faults /\ ~cmd.DryRun
    /\ calls.GetAccountStatuses >= 2 /\ Len(toDelete) >= 1

\* C9: a failed delete call does not end the run: the run returns, and when it
\* has returned after a failed delete call it has returned nil and has issued
\* a delete call for every candidate.
C9_DeleteErrorDoesNotAbort ==
    /\ <>(pc = "Returned")
    /\ []( ("DeleteStatus" \in faults /\ pc = "Returned") =>
              /\ err = "nil"
              /\ calls.DeleteStatus = Len(toDelete) /\ Len(log) = Len(toDelete) )

C9_Witness ==
    /\ pc = "Returned" /\ err = "nil" /\ Len(log) >= 2
    /\ \A i \in 1..Len(log) : log[i].call = "error when deleting"

\* C10: the scan ends: Run leaves LOOP for good, after a page that leaves both
\* cursor bounds empty it is not in LOOP any more, even with fewer than Count
\* candidates, and a run that has left LOOP without a failed fetch goes through
\* the deletion loop and returns nil.
C10_ScanTerminates ==
    /\ <>[](pc # "GetAccountStatuses")
    /\ []( (calls.GetAccountStatuses >= 1 /\ pg.MaxID = "" /\ pg.MinID = ""
             /\ "GetAccountStatuses" \notin faults) => pc \in {"DeleteStatus", "Returned"} )
    /\ (pc = "DeleteStatus") ~> (pc = "Returned" /\ err = "nil")

C10_Witness ==
    /\ pc = "Returned" /\ err = "nil"
    /\ calls.GetAccountStatuses >= 2 /\ pg.MaxID = "" /\ pg.MinID = ""
    /\ Len(toDelete) < cmd.Count

\* C11: once the candidate list has reached Count the walk is over: Run never
\* stands ahead of a fetch with Count candidates or more; the step that brings
\* the list to Count examines nothing behind the status that did it and goes to
\* the deletion loop; and a run without DryRun that returns nil has issued one
\* DeleteStatus call per candidate, exactly one when Count is 1 and a status
\* that the filter has no ground to skip was examined
C11_WalkStopsAtCount ==
    /\ [](pc = "GetAccountStatuses" => Len(toDelete) < cmd.Count)
    /\ [][ (Len(toDelete') > Len(toDelete) /\ Len(toDelete') >= cmd.Count) =>
              /\ pc' = "DeleteStatus"
              /\ toDelete'[Len(toDelete')].ID = served + (examined' - examined) ]_vars
    /\ []((pc = "Returned" /\ err = "nil" /\ ~cmd.DryRun) =>
              /\ calls.DeleteStatus = Len(toDelete)
              /\ (cmd.Count = 1 /\ owed >= 1) => calls.DeleteStatus = 1)

\* C12: when the config file decodes to a config whose Server or AccessToken is
\* empty, LoadConfig ends Run with the error that names an empty field: no
\* remote call has been issued, the file is as it was, and Run does nothing
\* after it has returned
C12_BadConfigEndsRun ==
    /\ [][ (/\ pc = "LoadConfig" /\ file.state = "ok"
            /\ (file.content.Server = "" \/ file.content.AccessToken = "")) =>
              /\ pc' = "Returned"
              /\ \/ err' = "'server' is required in config" /\ file.content.Server = ""
                 \/ err' = "'accesstoken' is required in config" /\ file.content.AccessToken = ""
              /\ file' = file
              /\ calls'.RegisterApp = 0 /\ calls'.WriteConfig = 0
              /\ calls'.GetAccountCurrentUser = 0 /\ calls'.GetAccountStatuses = 0
              /\ calls'.DeleteStatus = 0 ]_vars
    /\ [][pc # "Returned"]_vars

C12_Witness ==
    /\ pc = "Returned" /\ err = "'accesstoken' is required in config"
    /\ file.state = "ok" /\ file.content.Server # "" /\ file.content.AccessToken = ""
    /\ calls.LoadConfig = 1 /\ c = NoClient

\* C13: as the claim words it: a fetch that answers and leaves the candidate
\* list short of Count ends the scan only when MaxID and MinID are both empty
\* after it, and goes on to another fetch when exactly one of them is empty
C13_StopsOnlyWhenBothEmpty ==
    [][ (pc = "GetAccountStatuses" /\ pc' # "Returned" /\ Len(toDelete') < cmd.Count) =>
           /\ (pc' = "DeleteStatus") => (paged'.MaxID = "" /\ paged'.MinID = "")
           /\ ((paged'.MaxID = "") # (paged'.MinID = "")) => (pc' = "GetAccountStatuses") ]_vars

\* C13, amended: a fetch that answers and leaves the candidate list short of
\* Count ends the scan exactly when MaxID or MinID is empty after it; another
\* page is requested exactly when both bounds are there
C13_StopsWhenEitherEmpty ==
    [][ (pc = "GetAccountStatuses" /\ pc' # "Returned" /\ Len(toDelete') < cmd.Count) =>
           /\ (pc' = "DeleteStatus") <=> (paged'.MaxID = "" \/ paged'.MinID = "")
           /\ (pc' = "GetAccountStatuses") <=> (paged'.MaxID # "" /\ paged'.MinID # "") ]_vars

\* the scan has ended short of Count on a Link header with one bound only
C13_Witness ==
    /\ pc = "DeleteStatus" /\ Len(toDelete) < cmd.Count
    /\ paged.Limit = 0 /\ paged.MaxID = "max" /\ paged.MinID = ""
    /\ served > 0 /\ remaining > 0

\* the phases of a run, in their order
Phase(at) ==
    CASE at = "LoadConfig" -> 0
      [] at = "RegisterApp" -> 1
      [] at = "GetAccountCurrentUser" -> 2
      [] at = "GetAccountStatuses" -> 3
      [] at = "DeleteStatus" -> 4
      [] at = "Returned" -> 5

\* C14: Run never steps to an earlier phase; it registers an app only straight
\* after LoadConfig and only with a client ID or secret missing, scans only
\* after the account lookup, deletes only after the scan, returns nil only out
\* of the deletion loop, and does nothing once it has returned; after a failed
\* RegisterApp or GetAccountCurrentUser it has returned that error and neither
\* GetAccountStatuses nor DeleteStatus has been called
C14_PhasesInOrder ==
    /\ [][ /\ Phase(pc') >= Phase(pc)
           /\ pc # "Returned"
           /\ (pc' = "RegisterApp") =>
                 (pc = "LoadConfig" /\ (config'.ClientID = "" \/ config'.ClientSecret = ""))
           /\ (pc' = "GetAccountCurrentUser") => (pc \in {"LoadConfig", "RegisterApp"})
           /\ (pc' = "GetAccountStatuses") =>
                 (pc \in {"GetAccountCurrentUser", "GetAccountStatuses"})
           /\ (pc' = "DeleteStatus") => (pc \in {"GetAccountStatuses", "DeleteStatus"})
           /\ (pc' = "Returned" /\ err' = "nil") => (pc = "DeleteStatus") ]_vars
    /\ []( ("RegisterApp" \in faults) =>
              /\ pc = "Returned" /\ err = "register"
              /\ calls.GetAccountStatuses = 0 /\ calls.DeleteStatus = 0 /\ log = << >> )
    /\ []( ("GetAccountCurrentUser" \in faults) =>
              /\ pc = "Returned" /\ err = "account"
              /\ calls.GetAccountStatuses = 0 /\ calls.DeleteStatus = 0 /\ log = << >> )

\* a run that registered an app and then failed to look its account up
C14_Witness ==
    /\ pc = "Returned" /\ err = "account"
    /\ calls.RegisterApp = 1 /\ "GetAccountCurrentUser" \in faults

\* C15: in a run whose config file holds a client ID and a client secret (the
\* file's own: RegisterApp hands out other ones), RegisterApp is never called,
\* the file is never written, and config and the client hold the four fields
\* of the file; in every run LoadConfig takes config from the file as it is,
\* no later step changes Server or AccessToken, and the client is built from them
C15_CompleteCredentialsKept ==
    /\ []( (/\ file.state = "ok" /\ file.content.ClientID = "file-id"
            /\ file.content.ClientSecret = "file-secret"
            /\ file.content.Server # "" /\ file.content.AccessToken # "") =>
              /\ calls.RegisterApp = 0 /\ calls.WriteConfig = 0
              /\ pc # "RegisterApp"
              /\ (pc # "LoadConfig") => (config = file.content)
              /\ (c # NoClient) =>
                    /\ c.Server = file.content.Server
                    /\ c.ClientID = file.content.ClientID
                    /\ c.ClientSecret = file.content.ClientSecret
                    /\ c.AccessToken = file.content.AccessToken )
    /\ [][ /\ (pc = "LoadConfig" /\ pc' # "Returned") => (config' = file.content)
           /\ (pc # "LoadConfig") =>
                 (config'.Server = config.Server /\ config'.AccessToken = config.AccessToken)
           /\ (pc # "RegisterApp") => (file' = file) ]_vars
    /\ []( (c # NoClient) =>
              (c.Server = config.Server /\ c.AccessToken = config.AccessToken) )

\* a run on the file's own credentials that has deleted a status and returned
C15_Witness ==
    /\ pc = "Returned" /\ err = "nil" /\ calls.DeleteStatus >= 1
    /\ file.content.ClientID = "file-id" /\ file.content.ClientSecret = "file-secret"
    /\ c.ClientID = "file-id" /\ c.ClientSecret = "file-secret"
    /\ calls.RegisterApp = 0

\* C16: as the claim words it: a pass of the deletion loop sleeps exactly when
\* Slow is on, DryRun is off and the status of that pass was deleted, and never
\* in a dry run or with Slow off
C16_PauseIffReallyDeleted ==
    [][ (Len(log') = Len(log) + 1) =>
           /\ (slept' > slept) <=>
                 (cmd.Slow /\ ~cmd.DryRun /\ log'[Len(log')].call = "deleted")
           /\ (cmd.DryRun \/ ~cmd.Slow) => (slept' = slept) ]_vars

\* C16, amended: a pass of the deletion loop sleeps (15 seconds) exactly when
\* Slow is on and DryRun is off, that is after every DeleteStatus call, failed
\* or not, of a slow run, and never in a dry run or with Slow off
C16_PauseIffSlowAndNotDryRun ==
    [][ (Len(log') = Len(log) + 1) =>
           /\ (slept' = slept + 15) <=> (cmd.Slow /\ ~cmd.DryRun)
           /\ (slept' = slept + 15) => (log'[Len(log')].call \in {"deleted", "error when deleting"})
           /\ (cmd.DryRun \/ ~cmd.Slow) => (slept' = slept) ]_vars

\* a run whose only pass of the deletion loop failed to delete, and slept
C16_Witness ==
    /\ pc = "Returned" /\ cmd.Slow /\ ~cmd.DryRun
    /\ Len(log) = 1 /\ log[1].call = "error when deleting"
    /\ calls.GetAccountStatuses = 1 /\ slept = 15

\* C17: the run with DryRun the other way, given the same start time, the same
\* other flags and the same answers of the server, is at the same place of LOOP
\* with the same candidate list (same statuses, same order) and the same cursor
\* for its next request, at every fetch and when LOOP is left
C17_DryRunDoesNotSteerTheScan ==
    /\ (pc \in {"GetAccountStatuses", "DeleteStatus"}) =>
          (twin.pc = pc /\ twin.toDelete = toDelete /\ twin.pg = pg)
    /\ (pc = "Returned" /\ err = "statuses") =>
          (twin.pc = "Returned" /\ twin.toDelete = toDelete /\ twin.pg = pg)
    /\ (pc = "Returned" /\ err = "nil") =>
          (twin.pc = "DeleteStatus" /\ twin.toDelete = toDelete /\ twin.pg = pg)

\* both runs have left LOOP after two pages, with a candidate and with a
\* status skipped
C17_Witness ==
    /\ pc = "DeleteStatus" /\ twin.pc = "DeleteStatus"
    /\ calls.GetAccountStatuses >= 2 /\ Len(twin.toDelete) >= 1 /\ skips # {}
    /\ cmd.DryRun

\* C18: the server serves every status once (remaining and served count them).
\* When LOOP has been left without error and short of Count, and the latest
\* page was the last of the account or came with both bounds of the cursor (the
\* pages ahead of it all did, LOOP went on after them), then no status of the
\* account is left unserved, the range loop has run for every status served,
\* and every status examined that the filter has no ground to skip is a candidate
C18_WalkMissesNothing ==
    (/\ pc \in {"DeleteStatus", "Returned"} /\ err \in {"running", "nil"}
     /\ Len(toDelete) < cmd.Count
     /\ (remaining = 0 \/ (paged.MaxID # "" /\ paged.MinID # ""))) =>
        /\ remaining = 0
        /\ examined = served
        /\ owed = Len(toDelete)

\* a walk over two pages that took one status of the two and has returned
C18_Witness ==
    /\ pc = "Returned" /\ err = "nil" /\ Len(toDelete) < cmd.Count
    /\ calls.GetAccountStatuses >= 2 /\ served = 2 /\ remaining = 0
    /\ owed = 1 /\ skips # {}

\* C19: in the deletion loop and after it, the passes made so far handled the
\* entries of the candidate list from its last backwards, one pass per entry;
\* a run that returned nil made one pass for every entry, each a DeleteStatus
\* call or, in a dry run, a log line; and no step of the deletion loop changes
\* the candidate list
C19_OnePassPerCandidateInReverse ==
    /\ []( (pc = "DeleteStatus" \/ (pc = "Returned" /\ err = "nil")) =>
              /\ Len(log) <= Len(toDelete)
              /\ \A i \in 1..Len(log) : log[i].status = toDelete[Len(toDelete) + 1 - i]
              /\ calls.DeleteStatus = (IF cmd.DryRun THEN 0 ELSE Len(log))
              /\ \A i \in 1..Len(log) : (log[i].call = "dry run") <=> cmd.DryRun )
    /\ []( (pc = "Returned" /\ err = "nil") => (Len(log) = Len(toDelete)) )
    /\ [][ (pc = "DeleteStatus") => (toDelete' = toDelete) ]_vars

\* a run that collected two statuses and handled the second one first
C19_Witness ==
    /\ pc = "Returned" /\ err = "nil"
    /\ Len(toDelete) = 2 /\ Len(log) = 2
    /\ log[1].status = toDelete[2] /\ log[2].status = toDelete[1]
    /\ toDelete[1] # toDelete[2]

\* C20: the step in which RegisterApp succeeds and WriteConfig fails leaves Run
\* running, at the account lookup, with the new client ID and secret in config;
\* from then on the client is built with them, what Run returns is never the
\* error of the write, and a run in which no later fetch or lookup fails
\* returns nil after one pass of the deletion loop per candidate
C20_WriteErrorDropped ==
    /\ [][ ("WriteConfig" \in faults' /\ "WriteConfig" \notin faults) =>
              /\ pc' = "GetAccountCurrentUser" /\ err' = "running"
              /\ config'.ClientID = "app-id" /\ config'.ClientSecret = "app-secret"
              /\ calls'.RegisterApp = 1 /\ calls'.WriteConfig = 1 ]_vars
    /\ []( ("WriteConfig" \in faults) =>
              /\ (pc = "Returned") => (err \in {"account", "statuses", "nil"})
              /\ (c # NoClient) => (c.ClientID = "app-id" /\ c.ClientSecret = "app-secret")
              /\ (/\ pc = "Returned" /\ "GetAccountCurrentUser" \notin faults
                  /\ "GetAccountStatuses" \notin faults) =>
                    (err = "nil" /\ Len(log) = Len(toDelete)) )

\* a run that could not write its config file, went on and deleted a status
C20_Witness ==
    /\ "WriteConfig" \in faults /\ pc = "Returned" /\ err = "nil"
    /\ c.ClientID = "app-id" /\ c.ClientSecret = "app-secret"
    /\ ~cmd.DryRun /\ calls.DeleteStatus >= 1 /\ file.content.ClientID # "app-id"

====
